---- MODULE Spec2Model ----
(***************************************************************************)
(* Model of package retry: one invocation of Do(ctx, cfg, op) together     *)
(* with its environment (the context it is given, the operation it calls   *)
(* and the timer it arms between two attempts).                            *)
(*                                                                         *)
(* Durations are whole numbers of time units (time.Duration is an integer  *)
(* count of nanoseconds).  cfg.Factor is a float64; it is modelled as the  *)
(* ratio FactorNum / FactorDen and the conversion                          *)
(* time.Duration(float64(delay) * cfg.Factor) truncates toward zero.       *)
(***************************************************************************)
EXTENDS Integers, Sequences, FiniteSets, TLC

\* ---------------------------------------------------------------- bounds
MaxAttempts == 3
MaxDuration == 3

\* ---------------------------------------------------------------- errors
\* An error value.  kind is the identity of the value (what == compares),
\* msg the text Error() returns, attempts the number formatted into the
\* text, cause the error a chain check would find by Unwrap ("none" when the
\* value has no Unwrap method).
MkError(kind, attempts, msg, cause) ==
    [kind |-> kind, attempts |-> attempts, msg |-> msg, cause |-> cause]

Nil == MkError("nil", 0, "<nil>", "none")

Canceled == MkError("context.Canceled", 0, "context canceled", "none")

DeadlineExceeded ==
    MkError("context.DeadlineExceeded", 0, "context deadline exceeded", "none")

ErrBoom == MkError("boom", 0, "boom", "none")

ErrSentinel == MkError("sentinel", 0, "sentinel", "none")

CtxErrors == {Canceled, DeadlineExceeded}

OpErrors == {ErrBoom, ErrSentinel}

\* errors.Is(err, target): err or an error of its Unwrap chain is target.
ErrorsIs(err, target) ==
    err # Nil /\ (err.kind = target.kind \/ err.cause = target.kind)

\* err.Error() as the %v verb formats it (a nil error prints as <nil>).
ErrorText(err) == err.msg

\* fmt.Errorf("operation failed after %d attempts: %v", n, lastErr): the %v
\* verb copies the text of lastErr; the result has no Unwrap method.
Errorf(n, last) == MkError("errorString", n, ErrorText(last), "none")

\* ---------------------------------------------------------------- config
Factors == {<<0 - 1, 1>>, <<1, 2>>, <<2, 1>>, <<3, 2>>}

Predicates == {"nil", "always", "notSentinel"}

Config ==
    [Attempts : (0 - 1)..MaxAttempts,
     Delay : 0..MaxDuration,
     MaxDelay : 0..MaxDuration,
     FactorNum : {f[1] : f \in Factors},
     FactorDen : {f[2] : f \in Factors},
     Jitter : BOOLEAN,
     IsRetryable : Predicates]

VARIABLES
    cfg,        \* the Config value Do works on (its own copy)
    ctxErr,     \* ctx.Err(): Nil until the context is done, then fixed
    pc,         \* position of Do
    attempt,    \* loop counter
    delay,      \* local delay
    nextDelay,  \* local nextDelay, live across the select
    lastErr,    \* local lastErr
    ret,        \* the value Do returned
    retAt,      \* the return statement Do left by
    timer,      \* the timer of the current time.After
    calls,      \* history: number of invocations of op
    results,    \* history: what each invocation of op returned
    waits,      \* history: the duration given to each time.After
    doneAt,     \* history: where Do was when the context became done
    given       \* history: the Config the caller passed (Do works on a copy)

vars == <<cfg, ctxErr, pc, attempt, delay, nextDelay, lastErr, ret, retAt,
          timer, calls, results, waits, doneAt, given>>

NotDone == [pc |-> "never", calls |-> 0]

\* ------------------------------------------------------- pure definitions
\* The predicate a Config carries, applied to err.  A nil predicate cannot
\* be applied (Do replaces it before use).
ApplyPredicate(p, err) ==
    CASE p = "always" -> TRUE
      [] p = "notSentinel" -> ~ErrorsIs(err, ErrSentinel)

IsRetryable(err) == ApplyPredicate(cfg.IsRetryable, err)

\* time.Duration(float64(d) * cfg.Factor) for d >= 0 and a positive factor.
Scale(d, num, den) == (d * num) \div den

\* Variant: the factor is applied without the test that it is positive.
NextDelayNoGuard(d) ==
    LET scaled == Scale(d, cfg.FactorNum, cfg.FactorDen)
    IN  IF cfg.MaxDelay > 0 /\ scaled > cfg.MaxDelay
        THEN cfg.MaxDelay
        ELSE scaled

\* The delay of the next round, from the delay of this round.
NextDelay(d) ==
    LET scaled == IF cfg.FactorNum > 0
                  THEN Scale(d, cfg.FactorNum, cfg.FactorDen)
                  ELSE d
    IN  IF cfg.MaxDelay > 0 /\ scaled > cfg.MaxDelay
        THEN cfg.MaxDelay
        ELSE scaled

\* Variant: the wait lasts the delay just computed for the next round.
WaitDurationsNext(d) == {NextDelay(d)}

\* The durations the wait of a round may last, given the round's delay.
WaitDurations(d) == {d}

\* Variant: the loop condition admits one iteration too many.
LoopConditionOneMore(a) == a <= cfg.Attempts + 1

LoopCondition(a) == a <= cfg.Attempts

\* Variant: the last-attempt test is off by one.
IsLastAttemptOffByOne(a) == a >= cfg.Attempts - 1

\* Variant: the last-attempt test is missing.
IsLastAttemptNever(a) == FALSE

IsLastAttempt(a) == a = cfg.Attempts

\* Variant: a nil result is not recognised as success.
IsSuccessNever(err) == FALSE

IsSuccess(err) == err = Nil

\* ------------------------------------------------------------------ Init
Init ==
    /\ cfg \in {c \in Config : <<c.FactorNum, c.FactorDen>> \in Factors}
    /\ ctxErr \in {Nil} \cup CtxErrors
    /\ pc = "start"
    /\ attempt = 0
    /\ delay = 0
    /\ nextDelay = 0
    /\ lastErr = Nil
    /\ ret = Nil
    /\ retAt = "none"
    /\ timer = "none"
    /\ calls = 0
    /\ results = <<>>
    /\ waits = <<>>
    /\ doneAt = IF ctxErr = Nil THEN NotDone ELSE [pc |-> "before", calls |-> 0]
    /\ given = cfg

\* --------------------------------------------------------------- actions
Return(value, at) ==
    /\ pc' = "done"
    /\ ret' = value
    /\ retAt' = at

\* Variant: a nil predicate is not replaced by the always-true one.
BeginNoDefault ==
    /\ pc = "start"
    /\ delay' = cfg.Delay
    /\ attempt' = 1
    /\ lastErr' = Nil
    /\ pc' = "loop"
    /\ UNCHANGED <<cfg, ctxErr, nextDelay, ret, retAt, timer, calls, results,
                   waits, doneAt, given>>

\* Entry of Do up to the loop: defaults the predicate, initialises locals.
Begin ==
    /\ pc = "start"
    /\ cfg' = IF cfg.IsRetryable = "nil"
              THEN [cfg EXCEPT !.IsRetryable = "always"]
              ELSE cfg
    /\ delay' = cfg.Delay
    /\ attempt' = 1
    /\ lastErr' = Nil
    /\ pc' = "loop"
    /\ UNCHANGED <<ctxErr, nextDelay, ret, retAt, timer, calls, results,
                   waits, doneAt, given>>

\* Variant: the loop head does not look at the context.
LoopHeadNoCheck ==
    /\ pc = "loop"
    /\ IF ~LoopCondition(attempt)
       THEN /\ Return(Errorf(cfg.Attempts, lastErr), "exhausted")
            /\ UNCHANGED calls
       ELSE /\ pc' = "op"
            /\ calls' = calls + 1
            /\ UNCHANGED <<ret, retAt>>
    /\ UNCHANGED <<cfg, ctxErr, attempt, delay, nextDelay, lastErr, timer,
                   results, waits, doneAt, given>>

\* Loop head: the loop condition, the check of the context, the call of op.
LoopHead ==
    /\ pc = "loop"
    /\ IF ~LoopCondition(attempt)
       THEN /\ Return(Errorf(cfg.Attempts, lastErr), "exhausted")
            /\ UNCHANGED calls
       ELSE IF ctxErr # Nil
       THEN /\ Return(ctxErr, "precheck")
            /\ UNCHANGED calls
       ELSE /\ pc' = "op"
            /\ calls' = calls + 1
            /\ UNCHANGED <<ret, retAt>>
    /\ UNCHANGED <<cfg, ctxErr, attempt, delay, nextDelay, lastErr, timer,
                   results, waits, doneAt, given>>

\* What op may return: nil, one of its own errors, or the error of the
\* context once the context is done.
OpResults == {Nil} \cup OpErrors \cup (IF ctxErr = Nil THEN {} ELSE {ctxErr})

\* Variant: the last-attempt test comes before the classification.
OpReturnSwapped(err) ==
    /\ pc = "op"
    /\ results' = Append(results, err)
    /\ IF IsSuccess(err)
       THEN /\ Return(Nil, "success")
            /\ UNCHANGED <<lastErr, nextDelay, timer, waits>>
       ELSE /\ lastErr' = err
            /\ IF IsLastAttempt(attempt)
               THEN /\ Return(Errorf(cfg.Attempts, err), "exhausted")
                    /\ UNCHANGED <<nextDelay, timer, waits>>
               ELSE IF ~IsRetryable(err)
               THEN /\ Return(err, "nonretryable")
                    /\ UNCHANGED <<nextDelay, timer, waits>>
               ELSE /\ nextDelay' = NextDelay(delay)
                    /\ \E w \in WaitDurations(delay) : waits' = Append(waits, w)
                    /\ timer' = "pending"
                    /\ pc' = "wait"
                    /\ UNCHANGED <<ret, retAt>>
    /\ UNCHANGED <<cfg, ctxErr, attempt, delay, calls, doneAt, given>>

\* Variant: the context is consulted when op returns, before its result.
OpReturnCtxCheck(err) ==
    /\ pc = "op"
    /\ results' = Append(results, err)
    /\ IF ctxErr # Nil
       THEN /\ Return(ctxErr, "precheck")
            /\ UNCHANGED <<lastErr, nextDelay, timer, waits>>
       ELSE IF IsSuccess(err)
       THEN /\ Return(Nil, "success")
            /\ UNCHANGED <<lastErr, nextDelay, timer, waits>>
       ELSE /\ lastErr' = err
            /\ IF ~IsRetryable(err)
               THEN /\ Return(err, "nonretryable")
                    /\ UNCHANGED <<nextDelay, timer, waits>>
               ELSE IF IsLastAttempt(attempt)
               THEN /\ Return(Errorf(cfg.Attempts, err), "exhausted")
                    /\ UNCHANGED <<nextDelay, timer, waits>>
               ELSE /\ nextDelay' = NextDelay(delay)
                    /\ \E w \in WaitDurations(delay) : waits' = Append(waits, w)
                    /\ timer' = "pending"
                    /\ pc' = "wait"
                    /\ UNCHANGED <<ret, retAt>>
    /\ UNCHANGED <<cfg, ctxErr, attempt, delay, calls, doneAt, given>>

\* op returns err: classification (calling a nil predicate panics), the
\* last-attempt test, the next delay and the start of the wait.
OpReturn(err) ==
    /\ pc = "op"
    /\ results' = Append(results, err)
    /\ IF IsSuccess(err)
       THEN /\ Return(Nil, "success")
            /\ UNCHANGED <<lastErr, nextDelay, timer, waits>>
       ELSE /\ lastErr' = err
            /\ IF cfg.IsRetryable = "nil"
               THEN /\ Return(Nil, "panic")
                    /\ UNCHANGED <<nextDelay, timer, waits>>
               ELSE IF ~IsRetryable(err)
               THEN /\ Return(err, "nonretryable")
                    /\ UNCHANGED <<nextDelay, timer, waits>>
               ELSE IF IsLastAttempt(attempt)
               THEN /\ Return(Errorf(cfg.Attempts, err), "exhausted")
                    /\ UNCHANGED <<nextDelay, timer, waits>>
               ELSE /\ nextDelay' = NextDelay(delay)
                    /\ \E w \in WaitDurations(delay) : waits' = Append(waits, w)
                    /\ timer' = "pending"
                    /\ pc' = "wait"
                    /\ UNCHANGED <<ret, retAt>>
    /\ UNCHANGED <<cfg, ctxErr, attempt, delay, calls, doneAt, given>>

\* The runtime timer behind time.After expires.
TimerFire ==
    /\ timer = "pending"
    /\ timer' = "fired"
    /\ UNCHANGED <<cfg, ctxErr, pc, attempt, delay, nextDelay, lastErr, ret,
                   retAt, calls, results, waits, doneAt, given>>

\* Variant: after the timer case Do waits again instead of ending the round.
SelectTimerRearm ==
    /\ pc = "wait"
    /\ timer = "fired"
    /\ timer' = "pending"
    /\ UNCHANGED <<cfg, ctxErr, pc, attempt, delay, nextDelay, lastErr, ret,
                   retAt, calls, results, waits, doneAt, given>>

\* select takes the timer case; the loop body ends and attempt is stepped.
SelectTimer ==
    /\ pc = "wait"
    /\ timer = "fired"
    /\ timer' = "none"
    /\ delay' = nextDelay
    /\ attempt' = attempt + 1
    /\ pc' = "loop"
    /\ UNCHANGED <<cfg, ctxErr, nextDelay, lastErr, ret, retAt, calls,
                   results, waits, doneAt, given>>

\* Variant: the ctx.Done() case returns no error.
SelectDoneNil ==
    /\ pc = "wait"
    /\ ctxErr # Nil
    /\ Return(Nil, "wait")
    /\ UNCHANGED <<cfg, ctxErr, attempt, delay, nextDelay, lastErr, timer,
                   calls, results, waits, doneAt, given>>

\* select takes the ctx.Done() case.
SelectDone ==
    /\ pc = "wait"
    /\ ctxErr # Nil
    /\ Return(ctxErr, "wait")
    /\ UNCHANGED <<cfg, ctxErr, attempt, delay, nextDelay, lastErr, timer,
                   calls, results, waits, doneAt, given>>

\* The context becomes done: cancelled by its owner or past its deadline.
CtxDone(err) ==
    /\ ctxErr = Nil
    /\ ctxErr' = err
    /\ doneAt' = [pc |-> pc, calls |-> calls]
    /\ UNCHANGED <<cfg, pc, attempt, delay, nextDelay, lastErr, ret, retAt,
                   timer, calls, results, waits, given>>

Next ==
    \/ Begin
    \/ LoopHead
    \/ \E err \in OpResults : OpReturn(err)
    \/ TimerFire
    \/ SelectTimer
    \/ SelectDone
    \/ \E err \in CtxErrors : CtxDone(err)

Spec == Init /\ [][Next]_vars

\* Do runs when it can (it is a goroutine that is scheduled), every
\* invocation of op returns, every armed timer expires, and a select with a
\* ready case takes one.  Nothing is assumed about the context.
Fairness ==
    /\ WF_vars(Begin)
    /\ WF_vars(LoopHead)
    /\ WF_vars(\E err \in OpResults : OpReturn(err))
    /\ WF_vars(TimerFire)
    /\ WF_vars(SelectTimer \/ SelectDone)

FairSpec == Spec /\ Fairness

TypeOK ==
    /\ cfg \in Config
    /\ given \in Config
    /\ pc \in {"start", "loop", "op", "wait", "done"}
    /\ timer \in {"none", "pending", "fired"}
    /\ calls = Len(results) + (IF pc = "op" THEN 1 ELSE 0)
\* ================================================================ claims
Max(a, b) == IF a >= b THEN a ELSE b

Min(a, b) == IF a <= b THEN a ELSE b

RECURSIVE Pow(_, _)
Pow(b, e) == IF e = 0 THEN 1 ELSE b * Pow(b, e - 1)

\* The context was not done at any moment of the run of Do.
NeverCancelled == doneAt.pc \in {"never", "done"}

\* Invocations 1..n of op all returned an error the predicate calls retryable.
FailedRetryably(n) ==
    \A i \in 1..n : results[i] # Nil /\ IsRetryable(results[i])

\* C1: with Attempts = N >= 1 and a context that is never cancelled, an
\* operation that fails retryably on every invocation is invoked exactly N
\* times and Do returns the exhaustion error that reports N and the error of
\* the N-th invocation.
C1_ExhaustionAfterN ==
    (/\ pc = "done"
     /\ cfg.Attempts >= 1
     /\ NeverCancelled
     /\ FailedRetryably(Len(results)))
    => /\ calls = cfg.Attempts
       /\ Len(results) = cfg.Attempts
       /\ retAt = "exhausted"
       /\ ret.kind = "errorString"
       /\ ret.attempts = cfg.Attempts
       /\ ret.msg = results[cfg.Attempts].msg

C1_Witness ==
    /\ pc = "done"
    /\ retAt = "exhausted"
    /\ NeverCancelled
    /\ cfg.Attempts = 3
    /\ calls = 3
    /\ results[1] # results[3]

\* C2: when op fails retryably on invocations 1..k-1 and succeeds on
\* invocation k <= N (context never cancelled), Do has invoked op exactly k
\* times, has returned nil, and has started no wait after the success: the
\* k-1 waits are those between the attempts.
C2_SuccessOnK ==
    (/\ Len(results) >= 1
     /\ results[Len(results)] = Nil
     /\ FailedRetryably(Len(results) - 1)
     /\ NeverCancelled)
    => /\ pc = "done"
       /\ retAt = "success"
       /\ ret = Nil
       /\ calls = Len(results)
       /\ calls <= cfg.Attempts
       /\ Len(waits) = calls - 1
       /\ timer = "none"

C2_Witness ==
    /\ pc = "done"
    /\ ret = Nil
    /\ NeverCancelled
    /\ calls = 3
    /\ cfg.Attempts = 3
    /\ results[3] = Nil
    /\ Len(waits) = 2

\* C3: when op returns a non-retryable error on invocation k (earlier ones
\* failing retryably, context never cancelled), Do has invoked op exactly k
\* times, has started no wait after invocation k and has returned exactly
\* that error value, also when k = N.
C3_NonRetryableOnK ==
    (/\ Len(results) >= 1
     /\ results[Len(results)] # Nil
     /\ ~IsRetryable(results[Len(results)])
     /\ FailedRetryably(Len(results) - 1)
     /\ NeverCancelled)
    => /\ pc = "done"
       /\ retAt = "nonretryable"
       /\ ret = results[Len(results)]
       /\ ret.attempts = 0
       /\ calls = Len(results)
       /\ Len(waits) = calls - 1
       /\ timer = "none"

C3_Witness ==
    /\ pc = "done"
    /\ retAt = "nonretryable"
    /\ NeverCancelled
    /\ cfg.Attempts = 3
    /\ calls = 3
    /\ ret = ErrSentinel

\* The context became done while Do was running and fewer than Attempts
\* invocations had been started.
CancelledBeforeN ==
    /\ doneAt.pc \notin {"never", "done"}
    /\ doneAt.calls < cfg.Attempts

\* C4 as stated: if the context is done before the number of attempts
\* reaches N, Do returns the context's error and fewer than N invocations
\* are made, whatever the operation in flight returns.
C4_Original ==
    (pc = "done" /\ CancelledBeforeN)
    => /\ ret = ctxErr
       /\ calls < cfg.Attempts

\* C4 amended: if the context is done before the number of attempts reaches
\* N, fewer than N invocations are made, and Do returns the context's error
\* unless the invocation in flight when the context became done returns nil
\* (Do returns nil) or a non-retryable error (Do returns that error).
C4_CancelledBeforeN ==
    (pc = "done" /\ CancelledBeforeN)
    => /\ calls < cfg.Attempts
       /\ \/ ret = ctxErr
          \/ /\ doneAt.pc = "op"
             /\ calls = doneAt.calls
             /\ Len(results) = calls
             /\ \/ results[calls] = Nil /\ ret = Nil
                \/ /\ results[calls] # Nil
                   /\ ~IsRetryable(results[calls])
                   /\ ret = results[calls]

C4_Witness ==
    /\ pc = "done"
    /\ CancelledBeforeN
    /\ doneAt.pc = "op"
    /\ doneAt.calls = 2
    /\ retAt = "wait"
    /\ ret = DeadlineExceeded

\* C5: no invocation of op starts after Do has observed the context as
\* done.  When the check at the loop head finds the context done, Do returns
\* the context's own error (Canceled or DeadlineExceeded, as the context
\* reports it) in that step without invoking op, and op is not invoked
\* afterwards; with a context already done at the call, op is invoked zero
\* times.
C5_NoAttemptAfterObservedDone ==
    /\ [][(pc = "loop" /\ attempt <= cfg.Attempts /\ ctxErr # Nil)
          => (pc' = "done" /\ ret' = ctxErr /\ retAt' = "precheck"
              /\ calls' = calls)]_vars
    /\ [][retAt = "precheck" => calls' = calls]_vars
    /\ [](retAt = "precheck"
          => (pc = "done" /\ ret = ctxErr /\ ret \in CtxErrors
              /\ Len(results) = calls))
    /\ [](doneAt.pc = "before"
          => (calls = 0
              /\ (pc = "done" /\ cfg.Attempts >= 1 => ret = ctxErr)))

C5_Witness ==
    /\ retAt = "precheck"
    /\ ret = DeadlineExceeded
    /\ doneAt.pc = "before"
    /\ cfg.Attempts >= 1
    /\ calls = 0

\* C6: if the context becomes done while Do is in an inter-attempt wait, op
\* is never invoked again and Do returns the context's error, whichever case
\* the select takes (also when the timer case is taken with both ready).
C6_CancelDuringWait ==
    doneAt.pc = "wait"
    => /\ calls = doneAt.calls
       /\ pc \in {"wait", "loop", "done"}
       /\ pc = "done" => (ret = ctxErr /\ retAt \in {"wait", "precheck"})

C6_Witness ==
    /\ doneAt.pc = "wait"
    /\ pc = "done"
    /\ retAt = "precheck"
    /\ ret = Canceled
    /\ calls = 2

\* C7 as stated: with jitter disabled, the wait between attempt i and
\* attempt i+1 is min(D * F^(i-1), M) and never exceeds M, also when D > M.
\* Stated where the expression is defined: F = FactorNum / FactorDen > 0 and
\* a cap M > 0; both sides are scaled by FactorDen^(i-1).
C7_Original ==
    (~cfg.Jitter /\ cfg.FactorNum > 0 /\ cfg.MaxDelay > 0)
    => \A i \in 1..Len(waits) :
          /\ waits[i] <= cfg.MaxDelay
          /\ waits[i] * Pow(cfg.FactorDen, i - 1)
               = Min(cfg.Delay * Pow(cfg.FactorNum, i - 1),
                     cfg.MaxDelay * Pow(cfg.FactorDen, i - 1))

\* C8: every return of Do is exactly one of success, cancellation,
\* non-retryable rejection and exhaustion.  Success is returned exactly when
\* the last invocation returned nil; the raw operation error exactly when the
\* last invocation returned a non-retryable error (also on attempt N, and
\* also when the context is done by then); the context's error only when
\* every invocation made failed retryably and fewer than N were made;
\* exhaustion exactly when all N attempts were made and failed retryably.
C8_Outcomes ==
    pc = "done"
    => LET n == Len(results)
           lastNil == n >= 1 /\ results[n] = Nil
           lastRejected == n >= 1 /\ results[n] # Nil /\ ~IsRetryable(results[n])
       IN  /\ calls = n
           /\ retAt \in {"success", "precheck", "wait", "nonretryable", "exhausted"}
           /\ (retAt = "success") = lastNil
           /\ retAt = "success" => ret = Nil
           /\ (retAt = "nonretryable") = lastRejected
           /\ retAt = "nonretryable" => ret = results[n]
           /\ (retAt \in {"precheck", "wait"})
                = (FailedRetryably(n) /\ n < cfg.Attempts)
           /\ retAt \in {"precheck", "wait"} => (ret = ctxErr /\ ret \in CtxErrors)
           /\ (retAt = "exhausted")
                = (FailedRetryably(n) /\ n = Max(cfg.Attempts, 0))
           /\ retAt = "exhausted"
                => (ret.kind = "errorString" /\ ret.attempts = cfg.Attempts)

C8_Witness ==
    /\ pc = "done"
    /\ retAt = "nonretryable"
    /\ cfg.Attempts = 2
    /\ calls = 2
    /\ doneAt.pc = "op"
    /\ doneAt.calls = 2
    /\ ret = ErrSentinel

\* C9 as stated: the exhaustion error keeps the last underlying error as a
\* cause of its chain, so a chain check (errors.Is) on the result of Do
\* identifies the error returned by the last invocation.
C9_Original ==
    (pc = "done" /\ retAt = "exhausted" /\ calls >= 1)
    => ErrorsIs(ret, results[calls])

\* C10 as stated: with the jitter flag set, the wait of a round is a random
\* duration within the round's delay and so can differ from it; with the
\* flag clear the wait is the delay exactly.
C10_Original ==
    (pc = "wait" /\ delay > 0)
    => IF cfg.Jitter
       THEN /\ \A w \in WaitDurations(delay) : 0 <= w /\ w <= delay
            /\ \E w \in WaitDurations(delay) : w # delay
       ELSE WaitDurations(delay) = {delay}

\* C11: Do called with a nil predicate behaves as Do called with the same
\* policy and the always-true predicate.  From the loop on Do works on the
\* policy with the always-true predicate substituted (every later step reads
\* cfg only, so the invocations, waits and outcome are those of that policy),
\* no error is classified as non-retryable, the predicate call never fails,
\* and every error op returns leads to a wait or, on attempt N, to exhaustion.
C11_NilPredicateIsAlwaysTrue ==
    given.IsRetryable = "nil"
    => /\ pc # "start" => cfg = [given EXCEPT !.IsRetryable = "always"]
       /\ retAt \notin {"nonretryable", "panic"}
       /\ \A i \in 1..Len(results) :
             results[i] # Nil
             => \/ i = cfg.Attempts /\ i = Len(results) /\ retAt = "exhausted"
                \/ i < cfg.Attempts /\ Len(waits) >= i /\ waits[i] >= 0

C11_Witness ==
    /\ given.IsRetryable = "nil"
    /\ pc = "done"
    /\ retAt = "exhausted"
    /\ calls = 3
    /\ results[1] = ErrSentinel
    /\ results[3] = ErrSentinel
    /\ Len(waits) = 2

\* C12 as stated: every exhaustion outcome carries a non-nil last error that
\* the most recent invocation of op returned, for every value of Attempts;
\* with Attempts below 1 Do does not report an exhaustion that wraps no
\* underlying error.
C12_Original ==
    (pc = "done" /\ retAt = "exhausted")
    => /\ calls >= 1
       /\ lastErr # Nil
       /\ lastErr = results[calls]
       /\ ret.msg = results[calls].msg

\* C13: the number of invocations made so far is at most max(Attempts, 0);
\* an iteration of the loop invokes op at most once (the invocations made
\* are one per iteration entered); and an invocation that returned nil or a
\* non-retryable error is the last one.
C13_BoundedInvocations ==
    /\ calls <= Max(cfg.Attempts, 0)
    /\ pc = "loop" => calls = attempt - 1
    /\ pc \in {"op", "wait"} => calls = attempt
    /\ \A i \in 1..Len(results) :
          (results[i] = Nil \/ ~IsRetryable(results[i]))
          => (i = Len(results) /\ calls = i /\ pc = "done")

C13_Witness ==
    /\ pc = "done"
    /\ cfg.Attempts = 3
    /\ calls = 3
    /\ retAt = "exhausted"
    /\ doneAt.pc = "op"

\* C14: a wait is started only in the step in which an invocation
\* k < Attempts returns a retryable error: wait number i follows invocation
\* number i, no wait precedes the first invocation, and no wait follows
\* invocation number Attempts, so the waits started never exceed
\* min(invocations, Attempts - 1).
C14_WaitOnlyBetweenAttempts ==
    /\ [][waits' # waits
          => /\ pc = "op"
             /\ attempt < cfg.Attempts
             /\ calls = attempt
             /\ Len(results') = calls
             /\ results'[calls] # Nil
             /\ IsRetryable(results'[calls])
             /\ Len(waits') = calls
             /\ pc' = "wait"]_vars
    /\ [](Len(waits) <= calls)
    /\ [](cfg.Attempts >= 1 => Len(waits) <= Min(calls, cfg.Attempts - 1))
    /\ [](cfg.Attempts < 1 => Len(waits) = 0)
    /\ [](pc = "done" /\ cfg.Attempts >= 1 /\ Len(results) = cfg.Attempts
          => (Len(waits) = cfg.Attempts - 1 /\ timer # "pending"))

C14_Witness ==
    /\ pc = "done"
    /\ retAt = "exhausted"
    /\ cfg.Attempts = 3
    /\ calls = 3
    /\ Len(waits) = 2
    /\ timer = "none"

\* The cap applied to a delay: MaxDelay when it is set and exceeded.
Capped(d) == IF cfg.MaxDelay > 0 /\ d > cfg.MaxDelay THEN cfg.MaxDelay ELSE d

Control ==
    CASE pc = "start" -> "Idle"
      [] pc \in {"loop", "op"} -> "Attempting"
      [] pc = "wait" -> "Waiting"
      [] pc = "done" /\ retAt = "success" -> "Succeeded"
      [] pc = "done" /\ retAt \in {"precheck", "wait"} -> "Cancelled"
      [] pc = "done" /\ retAt = "nonretryable" -> "Rejected-NonRetryable"
      [] pc = "done" /\ retAt = "exhausted" -> "Exhausted"
      [] OTHER -> "Failed"

ControlEdges ==
    {<<"Idle", "Attempting">>,
     <<"Attempting", "Succeeded">>,
     <<"Attempting", "Cancelled">>,
     <<"Attempting", "Rejected-NonRetryable">>,
     <<"Attempting", "Waiting">>,
     <<"Waiting", "Attempting">>,
     <<"Waiting", "Cancelled">>,
     <<"Attempting", "Exhausted">>}

ControlTerminal ==
    {"Succeeded", "Cancelled", "Rejected-NonRetryable", "Exhausted"}

\* Attempt number Attempts is in flight and returns a retryable error in
\* this step.
FinalAttemptFailsRetryably ==
    /\ pc = "op"
    /\ attempt = cfg.Attempts
    /\ Len(results') = Len(results) + 1
    /\ results'[Len(results')] # Nil
    /\ IsRetryable(results'[Len(results')])

\* C16 as stated: the control state only takes the listed transitions;
\* Attempting -> Exhausted is taken exactly when attempt number Attempts
\* fails with a retryable error; the four terminal states are never left.
C16_Original ==
    /\ [][(Control' # Control) => (<<Control, Control'>> \in ControlEdges)]_vars
    /\ [][(Control = "Attempting" /\ Control' = "Exhausted")
          <=> FinalAttemptFailsRetryably]_vars
    /\ [][(Control \in ControlTerminal) => (Control' = Control)]_vars

\* The same statement for policies with Attempts >= 1.
C16_ForPositiveAttempts ==
    /\ [][(cfg.Attempts >= 1 /\ Control' # Control)
          => (<<Control, Control'>> \in ControlEdges)]_vars
    /\ [][(cfg.Attempts >= 1)
          => ((Control = "Attempting" /\ Control' = "Exhausted")
              <=> FinalAttemptFailsRetryably)]_vars
    /\ [][(Control \in ControlTerminal) => (Control' = Control)]_vars

\* C17 as stated: when a wait is ended by the context becoming done, the
\* timer of the wait is stopped before Do returns: in no reachable state has
\* Do returned while a timer it started is still pending.
C17_Original ==
    pc = "done" => timer # "pending"

C19_NoCheckDuringOperation ==
    (doneAt.pc = "op" /\ Len(results) >= doneAt.calls)
    => LET k == doneAt.calls
           r == results[k]
       IN  /\ calls = k
           /\ r = Nil => (pc = "done" /\ retAt = "success" /\ ret = Nil)
           /\ (r # Nil /\ ~IsRetryable(r))
                => (pc = "done" /\ retAt = "nonretryable" /\ ret = r)
           /\ (r # Nil /\ IsRetryable(r) /\ k = cfg.Attempts)
                => (pc = "done" /\ retAt = "exhausted"
                    /\ ret.kind = "errorString" /\ ret.msg = r.msg)
           /\ (r # Nil /\ IsRetryable(r) /\ k < cfg.Attempts)
                => /\ pc \in {"wait", "loop", "done"}
                   /\ pc = "done"
                        => (ret = ctxErr /\ retAt \in {"wait", "precheck"})

C19_Witness ==
    /\ doneAt.pc = "op"
    /\ doneAt.calls = 2
    /\ cfg.Attempts = 2
    /\ pc = "done"
    /\ retAt = "exhausted"
    /\ results[2] = Canceled

\* C20: every invocation of Do eventually returns, for every policy,
\* provided each invocation of op returns and each started wait is ended by
\* its timer or by the context.
C20_Terminates == <>(pc = "done")

C20_Witness ==
    /\ pc = "done"
    /\ cfg.Attempts = 3
    /\ calls = 3
    /\ Len(waits) = 2
    /\ doneAt.pc = "never"
    /\ timer = "none"
====
